---- MODULE Spec2Model ----
(***************************************************************************)
(* Model of generate_architecture.py: a straight-line script that builds a *)
(* diagram (nodes, nested clusters, edges) through the declarative API of  *)
(* the diagrams library, asks it to render on leaving the root context and *)
(* prints a confirmation line.  Text that the program transforms or prints *)
(* (the title, the output file name, the console line) is a sequence of    *)
(* one-character strings; labels that are only carried along are strings.  *)
(***************************************************************************)
EXTENDS Naturals, Integers, Sequences, FiniteSets, TLC

\* Number of consecutive executions of the script that are explored.
MaxRuns == 2

Range(s) == {s[i] : i \in 1..Len(s)}

----------------------------------------------------------------------------
(* The literal declarations of create_architecture_diagram                 *)

ROOT == "<diagram>"

NodeStmt(var, cls, label, line) ==
    [op |-> "node", var |-> var, cls |-> cls, label |-> label, dst |-> <<>>,
     style |-> "", color |-> "", line |-> line]

EnterStmt(label, line) ==
    [op |-> "enter", var |-> "", cls |-> "Cluster", label |-> label, dst |-> <<>>,
     style |-> "", color |-> "", line |-> line]

ExitStmt(line) ==
    [op |-> "exit", var |-> "", cls |-> "Cluster", label |-> "", dst |-> <<>>,
     style |-> "", color |-> "", line |-> line]

\* src >> Edge(label, style, color) >> dst ; a bare  src >> dst  carries the
\* default (empty) attributes.
EdgeStmt(src, dst, label, style, color, line) ==
    [op |-> "edge", var |-> src, cls |-> "Edge", label |-> label, dst |-> dst,
     style |-> style, color |-> color, line |-> line]

Title ==
    <<"S","o","c","k"," ","S","h","o","p"," ","M","i","c","r","o","s","e","r",
      "v","i","c","e","s"," ","A","r","c","h","i","t","e","c","t","u","r","e",
      " ","(","i","m","p","r","o","v","e","d",")">>

\* Lines 23-76: nodes and clusters, in program order.  A dedent that leaves a
\* with-block is an "exit" at the line of the block's last statement.
Declarations ==
    << NodeStmt("users", "Users", "Users", 24),
       EnterStmt("AWS Cloud", 27),
       NodeStmt("route53", "Route53", "Route53\nsock.blessedc.org\n(Managed by ExternalDNS)", 29),
       NodeStmt("acm", "CertificateManager", "ACM Wildcard\n*.sock.blessedc.org\n(+ sock.blessedc.org SAN)", 30),
       EnterStmt("VPC (Terraform-managed)", 33),
       NodeStmt("alb", "ALB", "Application\nLoad Balancer\n(ALB - TLS Termination)", 34),
       NodeStmt("iam_note", "EC2", "IRSA roles\n(alb-controller, external-dns)", 37),
       EnterStmt("EKS Cluster", 40),
       NodeStmt("control_plane", "EKS", "EKS Control Plane", 41),
       EnterStmt("kube-system", 44),
       NodeStmt("alb_controller", "Deployment", "aws-load-balancer-controller\n(Deployment, IRSA)", 45),
       NodeStmt("external_dns", "Deployment", "external-dns\n(Deployment, IRSA)", 46),
       ExitStmt(46),
       EnterStmt("Worker Nodes", 49),
       EnterStmt("Namespace: sock-shop", 51),
       EnterStmt("Application Layer", 52),
       NodeStmt("ingress", "Ingress", "ALB Ingress (Ingress resources)", 53),
       NodeStmt("frontend", "Pod", "Frontend\nService\n({{ .Release.Name }}-frontend)", 54),
       ExitStmt(54),
       EnterStmt("Business Logic", 56),
       NodeStmt("catalogue", "Pod", "Catalogue\nService", 57),
       NodeStmt("carts", "Pod", "Carts\nService", 58),
       NodeStmt("orders", "Pod", "Orders\nService", 59),
       NodeStmt("payment", "Pod", "Payment\nService", 60),
       NodeStmt("user", "Pod", "User\nService", 61),
       NodeStmt("shipping", "Pod", "Shipping\nService", 62),
       NodeStmt("queue_master", "Pod", "Queue\nMaster", 63),
       ExitStmt(63),
       EnterStmt("Data Layer", 65),
       NodeStmt("session_db", "Redis", "Session DB\n(Redis)", 66),
       NodeStmt("carts_db", "MongoDB", "Carts DB", 67),
       NodeStmt("user_db", "MongoDB", "User DB", 68),
       NodeStmt("catalogue_db", "MySQL", "Catalogue DB\n(MySQL / RDS)", 69),
       NodeStmt("orders_db", "MongoDB", "Orders DB", 70),
       NodeStmt("rabbitmq", "RabbitMQ", "RabbitMQ", 71),
       ExitStmt(71),
       ExitStmt(71),
       EnterStmt("Namespace: monitoring", 74),
       NodeStmt("prometheus", "Prometheus", "Prometheus\n(Helm)", 75),
       NodeStmt("grafana", "Grafana", "Grafana\n(Helm)", 76),
       ExitStmt(76),
       ExitStmt(76),
       ExitStmt(76),
       ExitStmt(76),
       ExitStmt(76) >>

\* Lines 78-110: the edge statements, in program order.
Edges ==
    << EdgeStmt("users", <<"route53">>, "https://sock.blessedc.org", "", "", 79),
       EdgeStmt("route53", <<"alb">>, "A record -> ALB\n(created by ExternalDNS)", "", "", 80),
       EdgeStmt("external_dns", <<"route53">>, "creates/updates DNS records", "dashed", "", 83),
       EdgeStmt("acm", <<"alb">>, "DNS validated via Route53", "dotted", "green", 86),
       EdgeStmt("alb_controller", <<"alb">>, "reconciles Ingress\ncreates target groups/listeners", "", "", 89),
       EdgeStmt("alb", <<"ingress">>, "routes traffic", "", "", 90),
       EdgeStmt("ingress", <<"frontend">>, "", "", "", 91),
       EdgeStmt("frontend", <<"catalogue", "carts", "orders", "user", "payment", "shipping">>, "", "", "", 94),
       EdgeStmt("frontend", <<"session_db">>, "", "", "", 95),
       EdgeStmt("catalogue", <<"catalogue_db">>, "", "", "", 98),
       EdgeStmt("carts", <<"carts_db">>, "", "", "", 99),
       EdgeStmt("orders", <<"orders_db">>, "", "", "", 100),
       EdgeStmt("user", <<"user_db">>, "", "", "", 101),
       EdgeStmt("queue_master", <<"rabbitmq">>, "", "", "", 102),
       EdgeStmt("prometheus", <<"frontend", "catalogue", "carts", "orders", "payment", "user", "shipping">>,
                "scrapes", "dashed", "purple", 105),
       EdgeStmt("grafana", <<"prometheus">>, "", "dashed", "purple", 106),
       EdgeStmt("iam_note", <<"alb_controller">>, "IRSA for controller & external-dns", "dotted", "", 109),
       EdgeStmt("iam_note", <<"external_dns">>, "", "dotted", "", 110) >>

\* Variant: the declaration of queue_master is missing.
ProgramUndeclared ==
    SelectSeq(Declarations, LAMBDA s : s.var # "queue_master") \o Edges

\* Variant: grafana >> prometheus is written inside the monitoring namespace
\* block, right after the declaration of grafana.
ProgramEdgeInCluster ==
    SubSeq(Declarations, 1, 40) \o <<Edges[16]>> \o
    SubSeq(Declarations, 41, Len(Declarations)) \o
    SubSeq(Edges, 1, 15) \o SubSeq(Edges, 17, Len(Edges))

\* Variant: Prometheus also points back at Grafana.
ProgramBackEdge ==
    Declarations \o Edges \o
    <<EdgeStmt("prometheus", <<"grafana">>, "", "dashed", "purple", 107)>>

\* The body of the with-Diagram block, lines 23-110.
Program == Declarations \o Edges

\* The argument of print on line 114.
ConfirmationLine ==
    <<"I","m","p","r","o","v","e","d"," ","a","r","c","h","i","t","e","c","t",
      "u","r","e"," ","d","i","a","g","r","a","m"," ","g","e","n","e","r","a",
      "t","e","d"," ","a","s"," ","'","s","o","c","k","_","s","h","o","p","_",
      "m","i","c","r","o","s","e","r","v","i","c","e","s","_","a","r","c","h",
      "i","t","e","c","t","u","r","e"," ","(","i","m","p","r","o","v","e","d",
      ")",".","p","n","g","'">>

----------------------------------------------------------------------------
(* Output file name: Diagram(title) with no filename argument names the    *)
(* file "_".join(title.split()).lower() plus the output format extension.  *)

Upper == <<"A","B","C","D","E","F","G","H","I","J","K","L","M",
           "N","O","P","Q","R","S","T","U","V","W","X","Y","Z">>
Lower == <<"a","b","c","d","e","f","g","h","i","j","k","l","m",
           "n","o","p","q","r","s","t","u","v","w","x","y","z">>

LowerChar(c) ==
    IF \E i \in 1..Len(Upper) : Upper[i] = c
    THEN Lower[CHOOSE i \in 1..Len(Upper) : Upper[i] = c]
    ELSE c

LowerCase(s) == [i \in 1..Len(s) |-> LowerChar(s[i])]

IsSpace(c) == c \in {" ", "\t", "\n"}

\* str.split(): the maximal runs of non-whitespace characters, in order.
RECURSIVE SplitFrom(_, _, _, _)
SplitFrom(s, i, word, acc) ==
    IF i > Len(s)
    THEN IF word = <<>> THEN acc ELSE Append(acc, word)
    ELSE IF IsSpace(s[i])
         THEN SplitFrom(s, i + 1, <<>>, IF word = <<>> THEN acc ELSE Append(acc, word))
         ELSE SplitFrom(s, i + 1, Append(word, s[i]), acc)

Split(s) == SplitFrom(s, 1, <<>>, <<>>)

\* sep.join(words)
RECURSIVE Join(_, _)
Join(sep, words) ==
    IF words = <<>> THEN <<>>
    ELSE IF Len(words) = 1 THEN words[1]
    ELSE words[1] \o sep \o Join(sep, Tail(words))

Sanitize(title) == LowerCase(Join(<<"_">>, Split(title)))

OutFormat == <<"p","n","g">>

FileNameOf(title) == Sanitize(title) \o <<".">> \o OutFormat

\* The text between the first and the last single quote of a console line.
QuotedName(line) ==
    LET qs == {i \in 1..Len(line) : line[i] = "'"}
    IN  IF Cardinality(qs) < 2 THEN <<>>
        ELSE LET a == CHOOSE i \in qs : \A j \in qs : i <= j
                 b == CHOOSE i \in qs : \A j \in qs : j <= i
             IN  SubSeq(line, a + 1, b - 1)

----------------------------------------------------------------------------
VARIABLES
    run,        \* ordinal of the current execution of the script
    asMain,     \* TRUE: run as the main program; FALSE: imported as a library
    pc,         \* position in the module: start, def, guard, call, build,
                \* print, done, failed
    ip,         \* index of the next statement of Program while building
    k,          \* targets of the current edge statement already connected
    funcDefined,\* create_architecture_diagram is bound in the module
    diagram,    \* root context: "none", "open", "closed"
    stack,      \* labels of the clusters currently open, outermost first
    parents,    \* set of <<cluster, parent>> pairs (parent may be ROOT)
    nodes,      \* declared nodes: records var, cls, label, cluster
    edges,      \* declared edges, in order of declaration
    requests,   \* rendering requests issued by this run
    files,      \* names of the files written by this run
    console,    \* lines printed by this run
    failure,    \* "" or the name of the unhandled exception
    prev        \* rendering requests of the latest earlier run that made any

vars == <<run, asMain, pc, ip, k, funcDefined, diagram, stack, parents, nodes,
          edges, requests, files, console, failure, prev>>

graph == <<diagram, stack, parents, nodes, edges>>

\* Variant: the cluster context is never consulted.
TopAlwaysRoot(s) == ROOT

Top(s) == IF s = <<>> THEN ROOT ELSE s[Len(s)]

Declared == {n.var : n \in nodes}

\* Variant: the label carries a stamp that differs from run to run.
NodeRecordStamped(stmt, cluster) ==
    [var |-> stmt.var, cls |-> stmt.cls,
     label |-> IF run = 1 THEN stmt.label ELSE "(regenerated)",
     cluster |-> cluster]

\* Node.__init__ under the current cluster context.
NodeRecord(stmt, cluster) ==
    [var |-> stmt.var, cls |-> stmt.cls, label |-> stmt.label, cluster |-> cluster]

\* Variant: every connection of a list goes to the list's first element.
EdgeRecordFirstOnly(stmt, i) ==
    [src |-> stmt.var, dst |-> stmt.dst[1], label |-> stmt.label,
     style |-> stmt.style, color |-> stmt.color, line |-> stmt.line]

\* Node.connect(target, edge): one directed edge carrying the attributes.
EdgeRecord(stmt, i) ==
    [src |-> stmt.var, dst |-> stmt.dst[i], label |-> stmt.label,
     style |-> stmt.style, color |-> stmt.color, line |-> stmt.line]

\* Names that an edge statement evaluates before it connects anything.
NamesOf(stmt) == {stmt.var} \cup Range(stmt.dst)

\* What Diagram.render() is asked to draw and where.
RenderRequest ==
    [nodes |-> nodes, parents |-> parents, edges |-> edges,
     file |-> FileNameOf(Title)]

StartState(r, m, p) ==
    /\ run = r
    /\ asMain = m
    /\ pc = "start"
    /\ ip = 0
    /\ k = 0
    /\ funcDefined = FALSE
    /\ diagram = "none"
    /\ stack = <<>>
    /\ parents = {}
    /\ nodes = {}
    /\ edges = <<>>
    /\ requests = <<>>
    /\ files = {}
    /\ console = <<>>
    /\ failure = ""
    /\ prev = p

Init == \E m \in BOOLEAN : StartState(1, m, <<>>)

\* Lines 7-17: the library imports succeed.
ImportLibraries ==
    /\ pc = "start"
    /\ pc' = "def"
    /\ UNCHANGED <<run, asMain, ip, k, funcDefined, graph, requests, files,
                   console, failure, prev>>

\* Lines 7-17: the diagrams package is not installed.
ImportFails ==
    /\ pc = "start"
    /\ pc' = "failed"
    /\ failure' = "ImportError"
    /\ UNCHANGED <<run, asMain, ip, k, funcDefined, graph, requests, files,
                   console, prev>>

\* Line 19: def binds the function; its body is not executed.
DefineFunction ==
    /\ pc = "def"
    /\ funcDefined' = TRUE
    /\ pc' = "guard"
    /\ UNCHANGED <<run, asMain, ip, k, graph, requests, files, console,
                   failure, prev>>

\* Variant: the call on line 113 is missing, the print is not.
GuardMainPrintOnly ==
    /\ pc = "guard"
    /\ asMain
    /\ pc' = "print"
    /\ UNCHANGED <<run, asMain, ip, k, funcDefined, graph, requests, files,
                   console, failure, prev>>

\* Line 112, __name__ == "__main__".
GuardMain ==
    /\ pc = "guard"
    /\ asMain
    /\ pc' = "call"
    /\ UNCHANGED <<run, asMain, ip, k, funcDefined, graph, requests, files,
                   console, failure, prev>>

\* Variant: lines 113-114 are not guarded.
GuardAbsent ==
    /\ pc = "guard"
    /\ ~asMain
    /\ pc' = "call"
    /\ UNCHANGED <<run, asMain, ip, k, funcDefined, graph, requests, files,
                   console, failure, prev>>

\* Line 112, __name__ is the module's name: the suite is skipped.
GuardImported ==
    /\ pc = "guard"
    /\ ~asMain
    /\ pc' = "done"
    /\ UNCHANGED <<run, asMain, ip, k, funcDefined, graph, requests, files,
                   console, failure, prev>>

\* Lines 113 and 21: the call enters the root diagram context.
EnterDiagram ==
    /\ pc = "call"
    /\ funcDefined
    /\ diagram' = "open"
    /\ pc' = "build"
    /\ ip' = 1
    /\ k' = 0
    /\ UNCHANGED <<run, asMain, funcDefined, stack, parents, nodes, edges,
                   requests, files, console, failure, prev>>

Building == pc = "build" /\ ip \in 1..Len(Program)

DeclareNode ==
    /\ Building
    /\ Program[ip].op = "node"
    /\ nodes' = nodes \cup {NodeRecord(Program[ip], Top(stack))}
    /\ ip' = ip + 1
    /\ UNCHANGED <<run, asMain, pc, k, funcDefined, diagram, stack, parents,
                   edges, requests, files, console, failure, prev>>

\* with Cluster(label): the parent is the cluster open at that moment.
EnterCluster ==
    /\ Building
    /\ Program[ip].op = "enter"
    /\ parents' = parents \cup {<<Program[ip].label, Top(stack)>>}
    /\ stack' = Append(stack, Program[ip].label)
    /\ ip' = ip + 1
    /\ UNCHANGED <<run, asMain, pc, k, funcDefined, diagram, nodes, edges,
                   requests, files, console, failure, prev>>

ExitCluster ==
    /\ Building
    /\ Program[ip].op = "exit"
    /\ stack # <<>>
    /\ stack' = SubSeq(stack, 1, Len(stack) - 1)
    /\ ip' = ip + 1
    /\ UNCHANGED <<run, asMain, pc, k, funcDefined, diagram, parents, nodes,
                   edges, requests, files, console, failure, prev>>

\* One connection of an edge statement.  The operand names are evaluated
\* before the first connection; an unbound name raises NameError, which
\* nothing catches.
DeclareEdge ==
    /\ Building
    /\ Program[ip].op = "edge"
    /\ IF k = 0 /\ ~(NamesOf(Program[ip]) \subseteq Declared)
       THEN /\ pc' = "failed"
            /\ failure' = "NameError"
            /\ UNCHANGED <<ip, k, edges>>
       ELSE /\ edges' = Append(edges, EdgeRecord(Program[ip], k + 1))
            /\ IF k + 1 = Len(Program[ip].dst)
               THEN ip' = ip + 1 /\ k' = 0
               ELSE ip' = ip /\ k' = k + 1
            /\ UNCHANGED <<pc, failure>>
    /\ UNCHANGED <<run, asMain, funcDefined, diagram, stack, parents, nodes,
                   requests, files, console, prev>>

AtEnd == pc = "build" /\ ip = Len(Program) + 1

\* Leaving the with-Diagram block renders; the backend writes the image.
RenderOk ==
    /\ AtEnd
    /\ requests' = Append(requests, RenderRequest)
    /\ files' = files \cup {FileNameOf(Title)}
    /\ diagram' = "closed"
    /\ pc' = "print"
    /\ UNCHANGED <<run, asMain, ip, k, funcDefined, stack, parents, nodes,
                   edges, console, failure, prev>>

\* Variant: the backend's exception is swallowed and execution goes on.
RenderFailsSwallowed ==
    /\ AtEnd
    /\ requests' = Append(requests, RenderRequest)
    /\ diagram' = "closed"
    /\ pc' = "print"
    /\ failure' = "BackendError"
    /\ UNCHANGED <<run, asMain, ip, k, funcDefined, stack, parents, nodes,
                   edges, files, console, prev>>

\* Leaving the with-Diagram block renders; the backend raises.
RenderFails ==
    /\ AtEnd
    /\ requests' = Append(requests, RenderRequest)
    /\ diagram' = "closed"
    /\ pc' = "failed"
    /\ failure' = "BackendError"
    /\ UNCHANGED <<run, asMain, ip, k, funcDefined, stack, parents, nodes,
                   edges, files, console, prev>>

\* Line 114.
PrintConfirmation ==
    /\ pc = "print"
    /\ console' = Append(console, ConfirmationLine)
    /\ pc' = "done"
    /\ UNCHANGED <<run, asMain, ip, k, funcDefined, graph, requests, files,
                   failure, prev>>

\* The process has ended; the script is executed again, in either way.
NextRun ==
    /\ pc \in {"done", "failed"}
    /\ run < MaxRuns
    /\ \E m \in BOOLEAN :
          /\ run' = run + 1
          /\ asMain' = m
          /\ pc' = "start"
          /\ ip' = 0
          /\ k' = 0
          /\ funcDefined' = FALSE
          /\ diagram' = "none"
          /\ stack' = <<>>
          /\ parents' = {}
          /\ nodes' = {}
          /\ edges' = <<>>
          /\ requests' = <<>>
          /\ files' = {}
          /\ console' = <<>>
          /\ failure' = ""
          /\ prev' = IF requests # <<>> THEN requests ELSE prev

Next ==
    \/ ImportLibraries
    \/ ImportFails
    \/ DefineFunction
    \/ GuardMain
    \/ GuardImported
    \/ EnterDiagram
    \/ DeclareNode
    \/ EnterCluster
    \/ ExitCluster
    \/ DeclareEdge
    \/ RenderOk
    \/ RenderFails
    \/ PrintConfirmation
    \/ NextRun

Spec == Init /\ [][Next]_vars

\* The statements of the script itself: the interpreter, once it can take one
\* of them, eventually does.  Whether the imports and the backend succeed,
\* and whether the script is executed again, is left to the environment.
RunStep ==
    \/ DefineFunction
    \/ GuardMain
    \/ GuardImported
    \/ EnterDiagram
    \/ DeclareNode
    \/ EnterCluster
    \/ ExitCluster
    \/ DeclareEdge
    \/ PrintConfirmation

FairSpec == Spec /\ WF_vars(RunStep)

----------------------------------------------------------------------------
(* Properties                                                              *)

RECURSIVE CountTargets(_)
CountTargets(stmts) ==
    IF stmts = <<>> THEN 0
    ELSE Len(Head(stmts).dst) + CountTargets(Tail(stmts))

\* Number of directed edges the whole program declares.
TotalEdges == CountTargets(Program)

NodeVars == {s.var : s \in {t \in Range(Program) : t.op = "node"}}

ClusterLabels == {s.label : s \in {t \in Range(Program) : t.op = "enter"}}

Clusters == {p[1] : p \in parents}

\* The graph is complete: the last statement of the block has been executed.
Built == asMain /\ (AtEnd \/ requests # <<>>)

\* C1: when an edge is declared, its source and each of its targets is a
\* node that has already been declared; no edge statement ever meets an
\* unbound name.
C1_EdgesReferenceDeclaredNodes ==
    /\ failure # "NameError"
    /\ \A i \in 1..Len(edges) :
          edges[i].src \in Declared /\ edges[i].dst \in Declared
    /\ (Building /\ Program[ip].op = "edge")
          => NamesOf(Program[ip]) \subseteq Declared

C1_Witness == pc = "build" /\ Len(edges) = TotalEdges /\ TotalEdges > 0

RECURSIVE Ancestors(_)
Ancestors(c) ==
    LET ps == {p[2] : p \in {q \in parents : q[1] = c}}
    IN  ps \cup UNION {Ancestors(p) : p \in ps \ {ROOT}}

Namespaces == {"kube-system", "Namespace: sock-shop", "Namespace: monitoring"}

\* C2: in the constructed graph AWS Cloud contains the VPC, which contains
\* the EKS cluster, which contains (directly or through a grouping) each of
\* the three namespaces; AWS Cloud is the only top-level cluster; and at
\* every moment a cluster has at most one parent.
C2_ClusterNesting ==
    /\ \A p, q \in parents : p[1] = q[1] => p[2] = q[2]
    /\ Built =>
          /\ <<"AWS Cloud", ROOT>> \in parents
          /\ {c \in Clusters : <<c, ROOT>> \in parents} = {"AWS Cloud"}
          /\ <<"VPC (Terraform-managed)", "AWS Cloud">> \in parents
          /\ <<"EKS Cluster", "VPC (Terraform-managed)">> \in parents
          /\ \A n \in Namespaces :
                n \in Clusters /\ "EKS Cluster" \in Ancestors(n)

C2_Witness == Built /\ Cardinality(Clusters) = 10

\* C3: while the module is being imported as a library nothing is rendered,
\* written or printed and no diagram is built; the import ends with the
\* function defined.
C3_ImportDoesNotGenerate ==
    ~asMain =>
       /\ requests = <<>>
       /\ files = {}
       /\ console = <<>>
       /\ diagram = "none"
       /\ nodes = {} /\ edges = <<>> /\ parents = {}
       /\ pc \notin {"call", "build", "print"}
       /\ pc = "done" => funcDefined

C3_Witness == ~asMain /\ pc = "done" /\ funcDefined

C4_Safe ==
    /\ Len(requests) <= 1
    /\ Len(console) <= 1
    /\ console # <<>> => (files # {} /\ requests # <<>>)
    /\ (asMain /\ pc = "done") =>
          /\ failure = ""
          /\ Len(requests) = 1
          /\ files = {FileNameOf(Title)}
          /\ requests[1].file = FileNameOf(Title)
          /\ console = <<ConfirmationLine>>

\* C4: a main run renders at most once and prints at most one line, a line
\* is printed only when the image file exists, a main run that ends
\* normally has rendered once, written exactly the file named after the
\* title and printed the confirmation, and once the image is written the
\* run goes on to end normally.
C4_MainRunRendersOnce ==
    /\ []C4_Safe
    /\ (asMain /\ pc = "print") ~> (pc = "done" /\ failure = "")

C4_Witness ==
    asMain /\ pc = "done" /\ Len(console) = 1 /\ files = {FileNameOf(Title)}

\* C5: rendering is requested at most once per run; a failure ends the run
\* in the failed state with nothing printed; a main run that has ended has
\* either rendered the whole graph, written the file and printed the
\* confirmation, or failed without a confirmation.
C5_NoRetryNoPartialSuccess ==
    /\ Len(requests) <= 1
    /\ (failure # "") <=> (pc = "failed")
    /\ pc = "failed" => (console = <<>> /\ files = {})
    /\ (asMain /\ pc = "done") =>
          /\ failure = ""
          /\ Len(requests) = 1
          /\ Len(requests[1].edges) = TotalEdges
          /\ {n.var : n \in requests[1].nodes} = NodeVars
          /\ files # {}
          /\ Len(console) = 1

C5_Witness ==
    pc = "failed" /\ failure = "BackendError" /\ Len(requests) = 1

C6_Step ==
    /\ (pc' # "start" /\ <<stack, parents, nodes, edges>>' # <<stack, parents, nodes, edges>>)
          => (diagram = "open" /\ diagram' = "open")
    /\ \A p \in parents' \ parents :
          pc' # "start" => (p[2] = Top(stack) /\ stack' = Append(stack, p[1]))
    /\ \A n \in nodes' \ nodes :
          pc' # "start" => (n.cluster = Top(stack) /\ stack' = stack)
    /\ Len(edges') > Len(edges) =>
          /\ stack = <<>>
          /\ Declared = NodeVars
          /\ Clusters = ClusterLabels
          /\ nodes' = nodes /\ parents' = parents /\ stack' = stack
    /\ Len(requests') > Len(requests) =>
          /\ Len(edges) = TotalEdges
          /\ stack = <<>>
          /\ diagram = "open"

\* C6: the graph changes only while the root context is open; a cluster is
\* opened under the cluster open at that moment (or the root); a node joins
\* the innermost open cluster; an edge is declared only when every node has
\* been declared and every cluster closed; rendering is requested only once
\* every edge has been declared.
C6_ConstructionOrder == [][C6_Step]_vars

C6_Witness ==
    /\ requests # <<>>
    /\ Len(edges) = TotalEdges
    /\ Declared = NodeVars
    /\ Clusters = ClusterLabels

Succ(n) == {e.dst : e \in {f \in Range(edges) : f.src = n}}

RECURSIVE ReachFrom(_, _)
ReachFrom(frontier, seen) ==
    IF frontier \subseteq seen THEN seen
    ELSE ReachFrom(UNION {Succ(n) : n \in frontier \ seen}, seen \cup frontier)

\* C8: no node reaches itself along one or more declared edges.
C8_Acyclic ==
    \A n \in Declared : n \notin ReachFrom(Succ(n), {})

C8_Witness == Len(edges) = TotalEdges /\ TotalEdges > 2 /\ pc = "build"

PngName == Sanitize(Title) \o <<".", "p", "n", "g">>

\* C9: the file name quoted in the printed confirmation line is the name of
\* the file the run wrote, the sanitized title plus ".png".
C9_ConfirmationNamesWrittenFile ==
    console # <<>> =>
       /\ QuotedName(console[1]) \in files
       /\ QuotedName(console[1]) = PngName

FrontendTargets ==
    {"catalogue", "carts", "orders", "user", "payment", "shipping"}

ScrapeTargets ==
    {"frontend", "catalogue", "carts", "orders", "payment", "user", "shipping"}

EdgesOfLine(l) == {i \in 1..Len(edges) : edges[i].line = l}

\* C10: the list statement of the frontend yields only plain edges from the
\* frontend to members of its list, and that of Prometheus only dashed,
\* purple, "scrapes" edges from Prometheus to members of its list; no pair
\* of nodes is connected twice; in the finished graph each member of either
\* list has its edge and Prometheus has no edge to queue_master.
C10_ListExpansion ==
    /\ \A i \in EdgesOfLine(94) :
          /\ edges[i].src = "frontend" /\ edges[i].dst \in FrontendTargets
          /\ edges[i].label = "" /\ edges[i].style = "" /\ edges[i].color = ""
    /\ \A i \in EdgesOfLine(105) :
          /\ edges[i].src = "prometheus" /\ edges[i].dst \in ScrapeTargets
          /\ edges[i].label = "scrapes" /\ edges[i].style = "dashed"
          /\ edges[i].color = "purple"
    /\ \A i, j \in 1..Len(edges) :
          (edges[i].src = edges[j].src /\ edges[i].dst = edges[j].dst) => i = j
    /\ \A i \in 1..Len(edges) :
          ~(edges[i].src = "prometheus" /\ edges[i].dst = "queue_master")
    /\ Built =>
          /\ {edges[i].dst : i \in EdgesOfLine(94)} = FrontendTargets
          /\ Cardinality(EdgesOfLine(94)) = 6
          /\ {edges[i].dst : i \in EdgesOfLine(105)} = ScrapeTargets
          /\ Cardinality(EdgesOfLine(105)) = 7

C10_Witness ==
    Built /\ Cardinality(EdgesOfLine(94)) = 6 /\ Cardinality(EdgesOfLine(105)) = 7

====
